---- MODULE Spec2Model ----
(***************************************************************************)
(* python-canfix, canfix/messages/nodespecific.py: the Node Specific       *)
(* Message codec.  One message object (NodeSpecific, NodeIdentification,   *)
(* BitRateSet or NodeIDSet) is constructed, configured through its          *)
(* property setters, encoded to a CAN frame (the msg property getter) and  *)
(* decoded from a CAN frame (the msg property setter, or the constructor   *)
(* given a frame).  Every method is modelled statement by statement, so    *)
(* that an exception leaves the object with the assignments made before    *)
(* the raising statement.                                                  *)
(***************************************************************************)
EXTENDS Integers, Sequences, FiniteSets

VARIABLES e, frame, arg, op, err, decodes

vars == <<e, frame, arg, op, err, decodes>>

-----------------------------------------------------------------------------
(* Bounds of the model and constants of the program.                       *)

\* Largest payload length of the frames handed to the decoders.
MaxDlc == 8

\* How far around each end of a field's range the setter arguments reach.
Margin == 1

\* How many frames are assigned to the msg property of one object.
MaxDecodes == 1

-----------------------------------------------------------------------------
(* Python values.  An attribute holds an integer, holds None, or does not  *)
(* exist (reading it raises AttributeError).                               *)

Val(v) == [t |-> "int", v |-> v]
None == [t |-> "None", v |-> 0]
Unset == [t |-> "unset", v |-> 0]

IsInt(x) == x.t = "int"
IsByte(x) == x.t = "int" /\ x.v \in 0..255

MSG_REQUEST == "REQUEST"
MSG_RESPONSE == "RESPONSE"
MSG_SUCCESS == "SUCCESS"
MSG_FAIL == "FAIL"

\* NodeSpecific.codes: the control codes that have a name are 0..19.
NumCodes == 20

\* BitRateSet.bitrates
bitrates == [k \in {125, 250, 500, 1000} |->
               CASE k = 125 -> 1 [] k = 250 -> 2 [] k = 500 -> 3 [] k = 1000 -> 4]

Kinds == {"NodeSpecific", "NodeIdentification", "BitRateSet", "NodeIDSet"}
Variants == Kinds \ {"NodeSpecific"}

\* The control code each variant's setMessage asserts and its constructor sets.
CodeOf(kind) ==
    CASE kind = "NodeIdentification" -> 0
      [] kind = "BitRateSet" -> 1
      [] kind = "NodeIDSet" -> 2
      [] OTHER -> 0

\* An object of class kind before __init__ has assigned anything.
Blank(kind) ==
    [kind |-> kind, sendNode |-> Unset, controlCode |-> Unset, destNode |-> Unset,
     msgType |-> "unset", status |-> "unset",
     device |-> Unset, fwrev |-> Unset, model |-> Unset,
     bitrate |-> Unset, newnode |-> Unset, data |-> <<>>]

NoObject == Blank("none")

\* A can.Message: dlc is the payload length.
Frame(address, data) == [arbitration_id |-> address, data |-> data, dlc |-> Len(data)]
NoFrame == [arbitration_id |-> -1, data |-> <<>>, dlc |-> 0]

\* msg.data[i], with Python's index from 0.
At(data, i) == data[i + 1]

\* The outcome of a method that assigns: the object as the method leaves it
\* and the exception it raises ("ok" when it returns).
Ok(o) == [e |-> o, err |-> "ok"]
Raise(o, x) == [e |-> o, err |-> x]

\* The outcome of a method that reads: the value it returns and the exception
\* it raises.
Return(out) == [out |-> out, err |-> "ok"]
Fail(out, x) == [out |-> out, err |-> x]

-----------------------------------------------------------------------------
(* class NodeSpecific                                                      *)

NS_init(o) == Ok([o EXCEPT !.controlCode = Val(0), !.data = <<>>])

NS_setMessage(o, msg) ==
    LET o1 == [o EXCEPT !.sendNode = Val(msg.arbitration_id - 1792)] IN
    IF Len(msg.data) < 1 THEN Raise(o1, "IndexError") ELSE
    Ok([o1 EXCEPT !.controlCode = Val(At(msg.data, 0)),
                  !.data = SubSeq(msg.data, 2, Len(msg.data))])

NS_getMessage(o) ==
    IF o.sendNode = Unset THEN Fail(NoFrame, "AttributeError") ELSE
    IF o.sendNode = None THEN Fail(NoFrame, "TypeError") ELSE
    IF o.controlCode = Unset THEN Fail(NoFrame, "AttributeError") ELSE
    Return(Frame(o.sendNode.v + 1792, <<o.controlCode.v>> \o o.data))

\* The text of the control code in __str__: the table's entry (its index
\* stands for the name), or the reserved / user defined label and the code.
NS_describe(code) ==
    IF code < NumCodes THEN <<"codes", code>>
    ELSE IF code < 128 THEN <<"Reserved NSM ", code>>
    ELSE <<"User Defined NSM ", code>>

NS_str(o) ==
    IF o.sendNode = Unset THEN Fail(<<>>, "AttributeError") ELSE
    IF o.controlCode = Unset THEN Fail(<<>>, "AttributeError") ELSE
    Return(NS_describe(o.controlCode.v))

-----------------------------------------------------------------------------
(* class NodeIdentification                                                *)

\* setDevice with the upper end of the range off by one (device > 256).
NI_setDevice_offByOne(o, device) ==
    IF device > 256 \/ device < 0
    THEN Raise(o, "ValueError")
    ELSE Ok([o EXCEPT !.device = Val(device), !.msgType = MSG_RESPONSE])

NI_setDevice(o, device) ==
    IF device > 255 \/ device < 0
    THEN Raise(o, "ValueError")
    ELSE Ok([o EXCEPT !.device = Val(device), !.msgType = MSG_RESPONSE])

NI_setFwrev(o, fwrev) ==
    IF fwrev > 255 \/ fwrev < 0
    THEN Raise(o, "ValueError")
    ELSE Ok([o EXCEPT !.fwrev = Val(fwrev), !.msgType = MSG_RESPONSE])

NI_setModel(o, model) ==
    IF model < 0 \/ model > 16777215
    THEN Raise(o, "ValueError")
    ELSE Ok([o EXCEPT !.model = Val(model), !.msgType = MSG_RESPONSE])

\* __init__ without msg; an argument that is None is not assigned.
NI_init(o, device, fwrev, model) ==
    LET o1 == [o EXCEPT !.controlCode = Val(0), !.msgType = MSG_REQUEST,
                        !.sendNode = None, !.destNode = None]
        r1 == IF device # None THEN NI_setDevice(o1, device.v) ELSE Ok(o1)
        r2 == IF r1.err # "ok" THEN r1
              ELSE IF fwrev # None THEN NI_setFwrev(r1.e, fwrev.v) ELSE r1
    IN  IF r2.err # "ok" THEN r2
        ELSE IF model # None THEN NI_setModel(r2.e, model.v) ELSE r2

NI_setMessage(o, msg) ==
    LET o1 == [o EXCEPT !.sendNode = Val(msg.arbitration_id - 1792)] IN
    IF Len(msg.data) < 1 THEN Raise(o1, "IndexError") ELSE
    LET o2 == [o1 EXCEPT !.controlCode = Val(At(msg.data, 0))] IN
    IF o2.controlCode.v # 0 THEN Raise(o2, "AssertionError") ELSE
    IF Len(msg.data) < 2 THEN Raise(o2, "IndexError") ELSE
    LET o3 == [o2 EXCEPT !.destNode = Val(At(msg.data, 1))] IN
    IF msg.dlc = 2 THEN Ok([o3 EXCEPT !.msgType = MSG_REQUEST])
    ELSE IF msg.dlc = 8 THEN
        LET o4 == [o3 EXCEPT !.msgType = MSG_RESPONSE]
            r1 == NI_setDevice(o4, At(msg.data, 3))
            r2 == IF r1.err # "ok" THEN r1 ELSE NI_setFwrev(r1.e, At(msg.data, 4))
        IN  IF r2.err # "ok" THEN r2
            ELSE NI_setModel(r2.e, At(msg.data, 5) + At(msg.data, 6) * 256
                                     + At(msg.data, 7) * 65536)
    ELSE Raise(o3, "MsgSizeError")

\* getData with the three model bytes in the opposite order.
NI_getData_swapped(o) ==
    IF o.controlCode = Unset \/ o.destNode = Unset THEN Fail(<<>>, "AttributeError") ELSE
    IF o.destNode = None THEN Fail(<<>>, "TypeError") ELSE
    IF o.msgType = "unset" THEN Fail(<<>>, "AttributeError") ELSE
    IF o.msgType = MSG_RESPONSE THEN
        IF o.device = Unset \/ o.fwrev = Unset \/ o.model = Unset
        THEN Fail(<<>>, "AttributeError")
        ELSE Return(<<o.controlCode.v, o.destNode.v, 1, o.device.v, o.fwrev.v,
                      (o.model.v \div 65536) % 256, (o.model.v \div 256) % 256,
                      o.model.v % 256>>)
    ELSE Return(<<o.controlCode.v, o.destNode.v>>)

\* bytearray.append raises TypeError for None; model & 0xFF and the shifts
\* are the remainders of the divisions below since model is not negative.
NI_getData(o) ==
    IF o.controlCode = Unset \/ o.destNode = Unset THEN Fail(<<>>, "AttributeError") ELSE
    IF o.destNode = None THEN Fail(<<>>, "TypeError") ELSE
    IF o.msgType = "unset" THEN Fail(<<>>, "AttributeError") ELSE
    IF o.msgType = MSG_RESPONSE THEN
        IF o.device = Unset \/ o.fwrev = Unset \/ o.model = Unset
        THEN Fail(<<>>, "AttributeError")
        ELSE Return(<<o.controlCode.v, o.destNode.v, 1, o.device.v, o.fwrev.v,
                      o.model.v % 256, (o.model.v \div 256) % 256,
                      (o.model.v \div 65536) % 256>>)
    ELSE Return(<<o.controlCode.v, o.destNode.v>>)

NI_str(o) ==
    IF o.sendNode = Unset \/ o.destNode = Unset \/ o.controlCode = Unset
    THEN Fail(<<>>, "AttributeError") ELSE
    IF o.controlCode.v >= NumCodes THEN Fail(<<>>, "IndexError") ELSE
    IF o.device = Unset \/ o.fwrev = Unset \/ o.model = Unset
    THEN Fail(<<>>, "AttributeError")
    ELSE Return(<<"codes", o.controlCode.v, o.device.v, o.fwrev.v, o.model.v>>)

\* getMessage of the three variants: the address, then the data property.
V_getMessage(o, d) ==
    IF o.sendNode = Unset THEN Fail(NoFrame, "AttributeError") ELSE
    IF o.sendNode = None THEN Fail(NoFrame, "TypeError") ELSE
    IF d.err # "ok" THEN Fail(NoFrame, d.err) ELSE
    Return(Frame(o.sendNode.v + 1792, d.out))

NI_getMessage(o) == V_getMessage(o, NI_getData(o))

-----------------------------------------------------------------------------
(* class BitRateSet                                                        *)

BRS_setBitRate(o, bitrate) ==
    IF bitrate >= 1 /\ bitrate <= 4
    THEN Ok([o EXCEPT !.bitrate = Val(bitrate), !.msgType = MSG_REQUEST])
    ELSE IF bitrate \in DOMAIN bitrates
    THEN Ok([o EXCEPT !.bitrate = Val(bitrates[bitrate]), !.msgType = MSG_REQUEST])
    ELSE Raise(o, "ValueError")

BRS_init(o, bitrate) ==
    LET o1 == [o EXCEPT !.controlCode = Val(1), !.msgType = MSG_RESPONSE,
                        !.status = MSG_SUCCESS, !.sendNode = None, !.destNode = None]
    IN  IF bitrate # None THEN BRS_setBitRate(o1, bitrate.v) ELSE Ok(o1)

BRS_setMessage(o, msg) ==
    LET o1 == [o EXCEPT !.sendNode = Val(msg.arbitration_id - 1792)] IN
    IF Len(msg.data) < 1 THEN Raise(o1, "IndexError") ELSE
    LET o2 == [o1 EXCEPT !.controlCode = Val(At(msg.data, 0))] IN
    IF o2.controlCode.v # 1 THEN Raise(o2, "AssertionError") ELSE
    IF Len(msg.data) < 2 THEN Raise(o2, "IndexError") ELSE
    LET o3 == [o2 EXCEPT !.destNode = Val(At(msg.data, 1))] IN
    IF msg.dlc = 2 THEN Ok([o3 EXCEPT !.msgType = MSG_RESPONSE, !.status = MSG_SUCCESS])
    ELSE IF msg.dlc = 3 THEN
        IF At(msg.data, 2) = 255
        THEN Ok([o3 EXCEPT !.msgType = MSG_RESPONSE, !.status = MSG_FAIL])
        ELSE BRS_setBitRate([o3 EXCEPT !.msgType = MSG_REQUEST], At(msg.data, 2))
    ELSE Raise(o3, "MsgSizeError")

BRS_getData(o) ==
    IF o.controlCode = Unset \/ o.destNode = Unset THEN Fail(<<>>, "AttributeError") ELSE
    IF o.destNode = None THEN Fail(<<>>, "TypeError") ELSE
    IF o.msgType = "unset" THEN Fail(<<>>, "AttributeError") ELSE
    IF o.msgType = MSG_RESPONSE THEN
        IF o.status = "unset" THEN Fail(<<>>, "AttributeError")
        ELSE IF o.status = MSG_FAIL THEN Return(<<o.controlCode.v, o.destNode.v, 255>>)
        ELSE Return(<<o.controlCode.v, o.destNode.v>>)
    ELSE IF o.bitrate = Unset THEN Fail(<<>>, "AttributeError")
    ELSE Return(<<o.controlCode.v, o.destNode.v, o.bitrate.v>>)

BRS_getMessage(o) == V_getMessage(o, BRS_getData(o))

\* b is bound only when some key of bitrates maps to the bitrate.
BRS_str(o) ==
    IF o.sendNode = Unset \/ o.destNode = Unset \/ o.controlCode = Unset
    THEN Fail(<<>>, "AttributeError") ELSE
    IF o.controlCode.v >= NumCodes THEN Fail(<<>>, "IndexError") ELSE
    IF o.msgType = "unset" THEN Fail(<<>>, "AttributeError") ELSE
    IF o.msgType = MSG_REQUEST THEN
        IF o.bitrate = Unset THEN Fail(<<>>, "AttributeError")
        ELSE IF \E k \in DOMAIN bitrates : bitrates[k] = o.bitrate.v
        THEN Return(<<"codes", o.controlCode.v, "request bitrate",
                      CHOOSE k \in DOMAIN bitrates : bitrates[k] = o.bitrate.v>>)
        ELSE Fail(<<>>, "UnboundLocalError")
    ELSE IF o.status = "unset" THEN Fail(<<>>, "AttributeError")
    ELSE Return(<<"codes", o.controlCode.v, o.status>>)

-----------------------------------------------------------------------------
(* class NodeIDSet                                                         *)

NIS_setNewNode(o, newnode) ==
    IF newnode >= 1 /\ newnode <= 255
    THEN Ok([o EXCEPT !.newnode = Val(newnode), !.msgType = MSG_REQUEST])
    ELSE Raise(o, "ValueError")

NIS_init(o, newnode) ==
    LET o1 == [o EXCEPT !.controlCode = Val(2), !.msgType = MSG_RESPONSE,
                        !.sendNode = None, !.destNode = None]
    IN  IF newnode # None THEN NIS_setNewNode(o1, newnode.v) ELSE Ok(o1)

NIS_setMessage(o, msg) ==
    LET o1 == [o EXCEPT !.sendNode = Val(msg.arbitration_id - 1792)] IN
    IF Len(msg.data) < 1 THEN Raise(o1, "IndexError") ELSE
    LET o2 == [o1 EXCEPT !.controlCode = Val(At(msg.data, 0))] IN
    IF o2.controlCode.v # 2 THEN Raise(o2, "AssertionError") ELSE
    IF Len(msg.data) < 2 THEN Raise(o2, "IndexError") ELSE
    LET o3 == [o2 EXCEPT !.destNode = Val(At(msg.data, 1))] IN
    IF msg.dlc = 3 THEN
        IF At(msg.data, 2) = 0
        THEN Ok([o3 EXCEPT !.msgType = MSG_RESPONSE])
        ELSE NIS_setNewNode([o3 EXCEPT !.msgType = MSG_REQUEST], At(msg.data, 2))
    ELSE Raise(o3, "MsgSizeError")

\* getData without the third byte.
NIS_getData_short(o) ==
    IF o.controlCode = Unset \/ o.destNode = Unset THEN Fail(<<>>, "AttributeError") ELSE
    IF o.destNode = None THEN Fail(<<>>, "TypeError") ELSE
    Return(<<o.controlCode.v, o.destNode.v>>)

NIS_getData(o) ==
    IF o.controlCode = Unset \/ o.destNode = Unset THEN Fail(<<>>, "AttributeError") ELSE
    IF o.destNode = None THEN Fail(<<>>, "TypeError") ELSE
    IF o.msgType = "unset" THEN Fail(<<>>, "AttributeError") ELSE
    IF o.msgType = MSG_RESPONSE THEN Return(<<o.controlCode.v, o.destNode.v, 0>>)
    ELSE IF o.msgType = MSG_REQUEST THEN
        IF o.newnode = Unset THEN Fail(<<>>, "AttributeError")
        ELSE Return(<<o.controlCode.v, o.destNode.v, o.newnode.v>>)
    ELSE Return(<<o.controlCode.v, o.destNode.v>>)

NIS_getMessage(o) == V_getMessage(o, NIS_getData(o))

NIS_str(o) ==
    IF o.sendNode = Unset \/ o.destNode = Unset \/ o.controlCode = Unset
    THEN Fail(<<>>, "AttributeError") ELSE
    IF o.controlCode.v >= NumCodes THEN Fail(<<>>, "IndexError") ELSE
    IF o.msgType = "unset" THEN Fail(<<>>, "AttributeError") ELSE
    IF o.msgType = MSG_REQUEST THEN
        IF o.newnode = Unset THEN Fail(<<>>, "AttributeError")
        ELSE Return(<<"codes", o.controlCode.v, "request new node id", o.newnode.v>>)
    ELSE Return(<<"codes", o.controlCode.v, "Success Response">>)

-----------------------------------------------------------------------------
(* The method of the object's class.                                       *)

setMessage(o, msg) ==
    CASE o.kind = "NodeIdentification" -> NI_setMessage(o, msg)
      [] o.kind = "BitRateSet" -> BRS_setMessage(o, msg)
      [] o.kind = "NodeIDSet" -> NIS_setMessage(o, msg)
      [] OTHER -> NS_setMessage(o, msg)

getMessage(o) ==
    CASE o.kind = "NodeIdentification" -> NI_getMessage(o)
      [] o.kind = "BitRateSet" -> BRS_getMessage(o)
      [] o.kind = "NodeIDSet" -> NIS_getMessage(o)
      [] OTHER -> NS_getMessage(o)

str(o) ==
    CASE o.kind = "NodeIdentification" -> NI_str(o)
      [] o.kind = "BitRateSet" -> BRS_str(o)
      [] o.kind = "NodeIDSet" -> NIS_str(o)
      [] OTHER -> NS_str(o)

\* Class(msg): __init__ given a frame runs setMessage on the new object.
FromMessage(kind, msg) == setMessage(Blank(kind), msg)

-----------------------------------------------------------------------------
(* The values the operations are called with.                              *)

\* The integers within Margin of either end of lo..hi, inside and outside.
Around(lo, hi) == ((lo - Margin) .. (lo + Margin - 1)) \cup ((hi - Margin + 1) .. (hi + Margin))

DeviceArgs == Around(0, 255)
FwrevArgs == Around(0, 255)
ModelArgs == Around(0, 16777215) \cup {1193046}
BitRateArgs == Around(1, 4) \cup {125, 250, 500, 1000, 999}
NewNodeArgs == Around(1, 255)
SendNodeArgs == {1}
DestNodeArgs == {7}

\* An optional constructor argument: None or a value.
Opt(S) == {None} \cup {Val(v) : v \in S}

Addresses == {0, 1791, 1792, 2047}

\* The bytes a frame may carry at index i of its payload.
BytesAt(i) ==
    CASE i = 0 -> {0, 1, 2, 20, 128}
      [] i = 1 -> {5}
      [] i = 2 -> {0, 1, 4, 5, 125, 250, 255}
      [] i = 3 -> {255}
      [] i = 4 -> {0}
      [] i = 5 -> {86}
      [] i = 6 -> {52}
      [] i = 7 -> {18}
      [] OTHER -> {0}

RECURSIVE PayloadsOfLen(_)
PayloadsOfLen(n) ==
    IF n = 0 THEN {<< >>}
    ELSE {Append(p, b) : p \in PayloadsOfLen(n - 1), b \in BytesAt(n - 1)}

Payloads == UNION {PayloadsOfLen(n) : n \in 0..MaxDlc}

\* The frames given to the constructors.
Frames == {Frame(a, p) : a \in Addresses, p \in Payloads}

\* The frames assigned to the msg property of an object.
AssignedFrames == {Frame(a, p) : a \in {2047}, p \in Payloads}

-----------------------------------------------------------------------------
(* The state: the message object e, the frame last decoded or encoded, the  *)
(* argument and the name of the last call, the exception it raised, and    *)
(* the number of frames assigned to e.msg so far.  A behaviour is the life *)
(* of one object: a constructor call, then calls of its methods.           *)

Init ==
    /\ e = NoObject
    /\ frame = NoFrame
    /\ arg = 0
    /\ op = "none"
    /\ err = "ok"
    /\ decodes = 0

\* The first call of a behaviour; a constructor that raises leaves no object.
Constructed(r) ==
    /\ op = "none"
    /\ e' = IF r.err = "ok" THEN r.e ELSE NoObject
    /\ err' = r.err
    /\ arg' = 0
    /\ decodes' = 0

NewNodeSpecific ==
    /\ Constructed(NS_init(Blank("NodeSpecific")))
    /\ op' = "NodeSpecific()"
    /\ frame' = NoFrame

NewNodeIdentification ==
    \E device \in Opt(DeviceArgs), fwrev \in Opt(FwrevArgs), model \in Opt(ModelArgs) :
        /\ Constructed(NI_init(Blank("NodeIdentification"), device, fwrev, model))
        /\ op' = "NodeIdentification()"
        /\ frame' = NoFrame

NewBitRateSet ==
    \E bitrate \in Opt(BitRateArgs) :
        /\ Constructed(BRS_init(Blank("BitRateSet"), bitrate))
        /\ op' = "BitRateSet()"
        /\ frame' = NoFrame

NewNodeIDSet ==
    \E newnode \in Opt(NewNodeArgs) :
        /\ Constructed(NIS_init(Blank("NodeIDSet"), newnode))
        /\ op' = "NodeIDSet()"
        /\ frame' = NoFrame

\* The name of the call Class(msg).
FromMessageOp(kind) ==
    CASE kind = "NodeIdentification" -> "NodeIdentification(msg)"
      [] kind = "BitRateSet" -> "BitRateSet(msg)"
      [] kind = "NodeIDSet" -> "NodeIDSet(msg)"
      [] OTHER -> "NodeSpecific(msg)"

\* Class(msg)
NewFromMessage ==
    \E kind \in Kinds, msg \in Frames :
        /\ Constructed(FromMessage(kind, msg))
        /\ op' = FromMessageOp(kind)
        /\ frame' = msg

\* e.<property> = value
Assigned(name, value, r) ==
    /\ e' = r.e
    /\ err' = r.err
    /\ arg' = value
    /\ op' = name
    /\ frame' = NoFrame
    /\ UNCHANGED decodes

SetDevice ==
    /\ e.kind = "NodeIdentification"
    /\ \E v \in DeviceArgs : Assigned("setDevice", v, NI_setDevice(e, v))

SetFwrev ==
    /\ e.kind = "NodeIdentification"
    /\ \E v \in FwrevArgs : Assigned("setFwrev", v, NI_setFwrev(e, v))

SetModel ==
    /\ e.kind = "NodeIdentification"
    /\ \E v \in ModelArgs : Assigned("setModel", v, NI_setModel(e, v))

SetBitRate ==
    /\ e.kind = "BitRateSet"
    /\ \E v \in BitRateArgs : Assigned("setBitRate", v, BRS_setBitRate(e, v))

SetNewNode ==
    /\ e.kind = "NodeIDSet"
    /\ \E v \in NewNodeArgs : Assigned("setNewNode", v, NIS_setNewNode(e, v))

\* sendNode, destNode and status are plain attributes.
SetSendNode ==
    /\ e.kind \in Kinds
    /\ \E v \in SendNodeArgs :
           Assigned("sendNode", v, Ok([e EXCEPT !.sendNode = Val(v)]))

SetDestNode ==
    /\ e.kind \in Variants
    /\ \E v \in DestNodeArgs :
           Assigned("destNode", v, Ok([e EXCEPT !.destNode = Val(v)]))

SetStatus ==
    /\ e.kind = "BitRateSet"
    /\ \E v \in {MSG_SUCCESS, MSG_FAIL} :
           /\ e' = [e EXCEPT !.status = v]
           /\ err' = "ok"
           /\ arg' = 0
           /\ op' = "status"
           /\ frame' = NoFrame
           /\ UNCHANGED decodes

\* e.msg = msg
Decode ==
    /\ e.kind \in Kinds
    /\ decodes < MaxDecodes
    /\ decodes' = decodes + 1
    /\ \E msg \in AssignedFrames :
           LET r == setMessage(e, msg) IN
           /\ e' = r.e
           /\ err' = r.err
           /\ arg' = 0
           /\ op' = "setMessage"
           /\ frame' = msg

\* e.msg
Encode ==
    /\ e.kind \in Kinds
    /\ LET r == getMessage(e) IN
           /\ frame' = r.out
           /\ err' = r.err
    /\ arg' = 0
    /\ op' = "getMessage"
    /\ UNCHANGED <<e, decodes>>

\* str(e)
Format ==
    /\ e.kind \in Kinds
    /\ err' = str(e).err
    /\ arg' = 0
    /\ op' = "str"
    /\ frame' = NoFrame
    /\ UNCHANGED <<e, decodes>>

\* The life of an object that no frame is assigned to after its construction.
Next ==
    \/ NewNodeSpecific
    \/ NewNodeIdentification
    \/ NewBitRateSet
    \/ NewNodeIDSet
    \/ NewFromMessage
    \/ SetDevice
    \/ SetFwrev
    \/ SetModel
    \/ SetBitRate
    \/ SetNewNode
    \/ SetSendNode
    \/ SetDestNode
    \/ SetStatus
    \/ Encode
    \/ Format

Spec == Init /\ [][Next]_vars

\* The same with frames assigned to the msg property of the object.
NextAssign ==
    \/ Next
    \/ Decode

SpecAssign == Init /\ [][NextAssign]_vars

Errors == {"ok", "ValueError", "MsgSizeError", "IndexError", "AssertionError",
           "AttributeError", "TypeError", "UnboundLocalError"}

TypeOK ==
    /\ e.kind \in Kinds \cup {"none"}
    /\ err \in Errors
    /\ decodes \in 0..MaxDecodes

-----------------------------------------------------------------------------
(* Properties.                                                             *)

RequestOrResponse == {MSG_REQUEST, MSG_RESPONSE}

\* A variant object whose addresses are node numbers, whose control code is
\* its class's, and whose fields of its current role are all set.
Valid(o) ==
    /\ o.kind \in Variants
    /\ IsByte(o.sendNode)
    /\ IsByte(o.destNode)
    /\ o.controlCode = Val(CodeOf(o.kind))
    /\ o.msgType \in RequestOrResponse
    /\ (o.kind = "NodeIdentification" /\ o.msgType = MSG_RESPONSE)
          => (IsInt(o.device) /\ IsInt(o.fwrev) /\ IsInt(o.model))
    /\ (o.kind = "BitRateSet" /\ o.msgType = MSG_REQUEST) => IsInt(o.bitrate)
    /\ (o.kind = "BitRateSet" /\ o.msgType = MSG_RESPONSE)
          => o.status \in {MSG_SUCCESS, MSG_FAIL}
    /\ (o.kind = "NodeIDSet" /\ o.msgType = MSG_REQUEST) => IsInt(o.newnode)

\* a and b agree on sendNode, destNode, msgType and the fields of that role.
SameObservable(a, b) ==
    /\ a.sendNode = b.sendNode
    /\ a.destNode = b.destNode
    /\ a.msgType = b.msgType
    /\ (a.kind = "NodeIdentification" /\ a.msgType = MSG_RESPONSE)
          => (a.device = b.device /\ a.fwrev = b.fwrev /\ a.model = b.model)
    /\ (a.kind = "BitRateSet" /\ a.msgType = MSG_REQUEST) => a.bitrate = b.bitrate
    /\ (a.kind = "BitRateSet" /\ a.msgType = MSG_RESPONSE) => a.status = b.status
    /\ (a.kind = "NodeIDSet" /\ a.msgType = MSG_REQUEST) => a.newnode = b.newnode

\* C1: entity round trip.  Whenever a valid NodeIdentification, BitRateSet or
\* NodeIDSet object has just been encoded, the encoding succeeded and a new
\* object of the same class constructed from the encoded frame has the same
\* sendNode, destNode, msgType and role-specific fields.
C1_EntityRoundTrip ==
    (op = "getMessage" /\ Valid(e)) =>
        /\ err = "ok"
        /\ LET r == FromMessage(e.kind, frame) IN
               r.err = "ok" /\ SameObservable(e, r.e)

\* C1 witness: a Node Identification response with an asymmetric model number
\* has been encoded.
C1_Witness ==
    /\ op = "getMessage"
    /\ Valid(e)
    /\ e.kind = "NodeIdentification"
    /\ e.msgType = MSG_RESPONSE
    /\ e.model = Val(1193046)
    /\ e.device = Val(255)
    /\ e.fwrev = Val(0)

\* Is frame f a frame with control code c?
HasCode(f, c) == Len(f.data) >= 1 /\ At(f.data, 0) = c

\* C2: Node Identification decode of a frame with control code 0: length 2
\* gives REQUEST with destNode = payload[1]; length 8 gives RESPONSE with
\* device, fwrev and model from payload[3..7]; every other length fails with
\* MsgSizeError and with no other error.
C2_LengthToRole ==
    (op = "NodeIdentification(msg)" /\ HasCode(frame, 0)) =>
        IF frame.dlc = 2 THEN
            /\ err = "ok"
            /\ e.msgType = MSG_REQUEST
            /\ e.destNode = Val(At(frame.data, 1))
        ELSE IF frame.dlc = 8 THEN
            /\ err = "ok"
            /\ e.msgType = MSG_RESPONSE
            /\ e.device = Val(At(frame.data, 3))
            /\ e.fwrev = Val(At(frame.data, 4))
            /\ e.model = Val(At(frame.data, 5) + At(frame.data, 6) * 256
                                + At(frame.data, 7) * 65536)
        ELSE err = "MsgSizeError"

\* C3: Bit Rate Set decode of a frame with control code 1: length 2 gives
\* RESPONSE/SUCCESS; length 3 with third byte 0xFF gives RESPONSE/FAIL; length
\* 3 with any other third byte b gives REQUEST with bitrate = b, neither
\* translated nor rejected; any other length fails with MsgSizeError.
C3_BitRateDecode ==
    (op = "BitRateSet(msg)" /\ HasCode(frame, 1)) =>
        IF frame.dlc = 2 THEN
            err = "ok" /\ e.msgType = MSG_RESPONSE /\ e.status = MSG_SUCCESS
        ELSE IF frame.dlc = 3 /\ At(frame.data, 2) = 255 THEN
            err = "ok" /\ e.msgType = MSG_RESPONSE /\ e.status = MSG_FAIL
        ELSE IF frame.dlc = 3 THEN
            err = "ok" /\ e.msgType = MSG_REQUEST /\ e.bitrate = Val(At(frame.data, 2))
        ELSE err = "MsgSizeError"

\* C4: Node ID Set decode of a frame with control code 2: length 3 with third
\* byte 0 gives RESPONSE with no newnode; length 3 with third byte b in 1..255
\* gives REQUEST with newnode = b; every other length fails with MsgSizeError
\* and with no other error.
C4_NodeIDDecode ==
    (op = "NodeIDSet(msg)" /\ HasCode(frame, 2)) =>
        IF frame.dlc = 3 /\ At(frame.data, 2) = 0 THEN
            err = "ok" /\ e.msgType = MSG_RESPONSE /\ e.newnode = Unset
        ELSE IF frame.dlc = 3 THEN
            err = "ok" /\ e.msgType = MSG_REQUEST /\ e.newnode = Val(At(frame.data, 2))
        ELSE err = "MsgSizeError"

SetterOps == {"setDevice", "setFwrev", "setModel", "setBitRate", "setNewNode"}

\* The domain of the field a setter assigns.
InDomain(name, v) ==
    CASE name = "setDevice" -> v \in 0..255
      [] name = "setFwrev" -> v \in 0..255
      [] name = "setModel" -> v \in 0..16777215
      [] name = "setBitRate" -> v \in {1, 2, 3, 4} \cup {125, 250, 500, 1000}
      [] name = "setNewNode" -> v \in 1..255
      [] OTHER -> FALSE

\* C5: atomic, range-checked setters.  A setter call returns exactly when its
\* argument is in the field's domain and raises ValueError otherwise, and a
\* call that raises leaves every field of the object, msgType included, as it
\* was before the call.
C5_AtomicSetters ==
    [][op' \in SetterOps =>
          /\ err' = IF InDomain(op', arg') THEN "ok" ELSE "ValueError"
          /\ (err' # "ok" => e' = e)]_vars

\* C5 witness: setDevice(256) has been rejected on a Node Identification
\* request that has no device.
C5_Witness ==
    /\ op = "setDevice"
    /\ arg = 256
    /\ err = "ValueError"
    /\ e.msgType = MSG_REQUEST
    /\ e.device = Unset

\* C6: no inconsistent object.  In every state of a variant object reached by
\* construction and setter calls, msgType agrees with the populated fields: a
\* NodeIdentification RESPONSE has device, fwrev and model all set, a
\* BitRateSet REQUEST has bitrate set, a NodeIDSet REQUEST has newnode set, and
\* so encoding an object that has its addresses never fails.
C6_ConsistentRole ==
    /\ (e.kind = "NodeIdentification" /\ e.msgType = MSG_RESPONSE)
          => (IsInt(e.device) /\ IsInt(e.fwrev) /\ IsInt(e.model))
    /\ (e.kind = "BitRateSet" /\ e.msgType = MSG_REQUEST) => IsInt(e.bitrate)
    /\ (e.kind = "NodeIDSet" /\ e.msgType = MSG_REQUEST) => IsInt(e.newnode)
    /\ (op = "getMessage" /\ e.kind \in Variants /\ IsInt(e.sendNode) /\ IsInt(e.destNode))
          => err = "ok"

\* C7: generic envelope decode computes sendNode = address - 1792 and fails
\* with AddressRangeError whenever that is outside 0..255; no envelope with
\* sendNode outside 0..255 is produced.
C7_AddressRange ==
    (op = "NodeSpecific(msg)" /\ Len(frame.data) >= 1) =>
        IF frame.arbitration_id - 1792 \in 0..255
        THEN err = "ok" /\ e.sendNode = Val(frame.arbitration_id - 1792)
        ELSE err = "AddressRangeError" /\ e = NoObject

\* C8: diagnostic formatting never raises: str of any object in any state
\* reached by construction, setter calls or a successful decode returns.
C8_FormatNeverRaises ==
    op = "str" => err = "ok"

\* C9: no partial decoding.  When assigning a frame to the msg property of a
\* NodeIdentification, BitRateSet or NodeIDSet object raises, every field of
\* the object is as it was before the call.
C9_NoPartialDecode ==
    [][(op' = "setMessage" /\ e.kind \in Variants /\ err' # "ok") => e' = e]_vars

\* The third payload byte that encoding gives back for third byte b of a
\* frame the decoder of class kind accepted.
ReencodedThird(kind, b) ==
    CASE kind = "NodeIdentification" -> 1
      [] kind = "BitRateSet" -> IF b \in DOMAIN bitrates THEN bitrates[b] ELSE b
      [] OTHER -> b

VariantFromMessageOps == {FromMessageOp(k) : k \in Variants}

\* C10 as claimed: encoding the object decoded from an accepted frame with
\* address in 1792..2047 yields the same address, payload bytes and length.
C10_FrameRoundTrip ==
    (op \in VariantFromMessageOps /\ err = "ok" /\ frame.arbitration_id \in 1792..2047) =>
        LET r == getMessage(e) IN
        /\ r.err = "ok"
        /\ r.out.arbitration_id = frame.arbitration_id
        /\ r.out.dlc = Len(frame.data)
        /\ r.out.data = frame.data

\* C10 amended: encoding the object decoded from an accepted frame with
\* address in 1792..2047 yields the same address, the same length and the
\* same payload bytes except the third: a Node Identification response is
\* encoded with third byte 1 whatever the frame carried there, and a Bit Rate
\* Set request whose third byte was 125 or 250 is encoded with the code 1 or 2.
C10_FrameRoundTripButThird ==
    (op \in VariantFromMessageOps /\ err = "ok" /\ frame.arbitration_id \in 1792..2047) =>
        LET r == getMessage(e) IN
        /\ r.err = "ok"
        /\ r.out.arbitration_id = frame.arbitration_id
        /\ r.out.dlc = Len(frame.data)
        /\ Len(r.out.data) = Len(frame.data)
        /\ \A i \in 0..(Len(frame.data) - 1) :
              At(r.out.data, i) = IF i = 2 THEN ReencodedThird(e.kind, At(frame.data, 2))
                                  ELSE At(frame.data, i)

\* C10 witness: a Node Identification response whose third byte is not 1 has
\* been decoded from a frame of node 255.
C10_Witness ==
    /\ op = "NodeIdentification(msg)"
    /\ err = "ok"
    /\ frame.arbitration_id = 2047
    /\ frame.dlc = 8
    /\ At(frame.data, 2) = 0
    /\ e.msgType = MSG_RESPONSE

====
